---- MODULE Spec2Model ----
(***************************************************************************)
(* Authentication and session management of the recipe application:       *)
(* services/auth_service.py (AuthenticationService), models/user.py (User, *)
(* UserSession) and the routes of routes/auth.py that call them.           *)
(*                                                                         *)
(* Strings are sequences of one-character strings, so that lower(),        *)
(* strip() and the regular expressions are computed character by           *)
(* character.  Time is counted in hours (UTC).                             *)
(***************************************************************************)
EXTENDS Naturals, Integers, Sequences, FiniteSets, TLC

\* ------------------------------------------------------------------ bounds
\* users in the table, the seeded administrator included
MaxUsers == 2
\* access tokens issued in one run
MaxTokens == 2
\* hours the clock runs
MaxTime == 2

\* --------------------------------------------------------------- constants
\* timedelta(hours=1): the lifetime of an access token, in hours.
AccessTTL == 1
\* timedelta(days=30): the lifetime of a refresh token, in hours.
RefreshTTL == 720
\* password_requirements['min_length']
min_length == 8

\* A missing value (Python None, SQL NULL).
None == "None"

\* ------------------------------------------------------------- characters
UpperSeq == <<"A","B","C","D","E","F","G","H","I","J","K","L","M",
              "N","O","P","Q","R","S","T","U","V","W","X","Y","Z">>
LowerSeq == <<"a","b","c","d","e","f","g","h","i","j","k","l","m",
              "n","o","p","q","r","s","t","u","v","w","x","y","z">>
Upper == {UpperSeq[i] : i \in 1..26}
Lower == {LowerSeq[i] : i \in 1..26}
Digit == {"0","1","2","3","4","5","6","7","8","9"}
\* [!@#$%^&*(),.?":{}|<>]
Special == {"!","@","#","$","%","^","&","*","(",")",",",".","?","\"",":",
            "{","}","|","<",">"}
\* the characters str.strip() removes
Whitespace == {" ", "\t", "\n", "\r", "\f"}
\* [a-zA-Z0-9._%+-]
LocalChars == Upper \cup Lower \cup Digit \cup {".","_","%","+","-"}
\* [a-zA-Z0-9.-]
DomainChars == Upper \cup Lower \cup Digit \cup {".","-"}

\* str.lower() on one character
LowerChar(c) ==
    IF c \in Upper THEN LowerSeq[CHOOSE i \in 1..26 : UpperSeq[i] = c] ELSE c

\* str.lower()
lower(s) == [i \in 1..Len(s) |-> LowerChar(s[i])]

\* str.strip(): drop the leading and the trailing whitespace
strip(s) ==
    LET keep == {i \in 1..Len(s) : s[i] \notin Whitespace}
    IN  IF keep = {} THEN <<>>
        ELSE LET lo == CHOOSE i \in keep : \A j \in keep : i <= j
                 hi == CHOOSE i \in keep : \A j \in keep : j <= i
             IN  SubSeq(s, lo, hi)

AllIn(s, lo, hi, chars) == \A k \in lo..hi : s[k] \in chars

\* the pattern ^[a-zA-Z0-9._%+-]+@[a-zA-Z0-9.-]+\.[a-zA-Z]{2,} up to the end of s
EmailFullMatch(s) ==
    \E i \in 2..Len(s) : \E j \in (i + 2)..(Len(s) - 2) :
        /\ s[i] = "@"
        /\ s[j] = "."
        /\ AllIn(s, 1, i - 1, LocalChars)
        /\ AllIn(s, i + 1, j - 1, DomainChars)
        /\ AllIn(s, j + 1, Len(s), Upper \cup Lower)

\* re.match(email_pattern, email): '$' matches at the end of the string and
\* also just before a newline that ends the string.
validate_email(email) ==
    \/ EmailFullMatch(email)
    \/ /\ Len(email) > 0
       /\ email[Len(email)] = "\n"
       /\ EmailFullMatch(SubSeq(email, 1, Len(email) - 1))

HasChar(s, chars) == \E i \in 1..Len(s) : s[i] \in chars

\* a check that stops at the first rule that is not met
password_errors_first_only(password) ==
    IF Len(password) < min_length
      THEN <<"Password must be at least 8 characters long">>
    ELSE IF ~HasChar(password, Upper)
      THEN <<"Password must contain at least one uppercase letter">>
    ELSE IF ~HasChar(password, Lower)
      THEN <<"Password must contain at least one lowercase letter">>
    ELSE IF ~HasChar(password, Digit)
      THEN <<"Password must contain at least one number">>
    ELSE IF ~HasChar(password, Special)
      THEN <<"Password must contain at least one special character">>
    ELSE <<>>

\* validate_password: the list of reasons, in the order of the checks
password_errors(password) ==
    (IF Len(password) < min_length
        THEN <<"Password must be at least 8 characters long">> ELSE <<>>)
    \o (IF ~HasChar(password, Upper)
        THEN <<"Password must contain at least one uppercase letter">> ELSE <<>>)
    \o (IF ~HasChar(password, Lower)
        THEN <<"Password must contain at least one lowercase letter">> ELSE <<>>)
    \o (IF ~HasChar(password, Digit)
        THEN <<"Password must contain at least one number">> ELSE <<>>)
    \o (IF ~HasChar(password, Special)
        THEN <<"Password must contain at least one special character">> ELSE <<>>)

\* validate_password: (len(errors) == 0, errors)
validate_password(password) ==
    <<Len(password_errors(password)) = 0, password_errors(password)>>

\* '; '.join(errors)
RECURSIVE Join(_)
Join(errors) ==
    IF Len(errors) = 0 THEN ""
    ELSE IF Len(errors) = 1 THEN errors[1]
    ELSE errors[1] \o "; " \o Join(Tail(errors))

\* ------------------------------------------------------------------ inputs
Str_admin_email == <<"a","d","m","i","n","@","a","i","r","e","c","i","p","e",
                     "h","u","b",".","c","o","m">>
Str_admin_name == <<"A","d","m","i","n"," ","U","s","e","r">>
Str_admin123 == <<"a","d","m","i","n","1","2","3">>
Str_Ann == <<"A","n","n">>
Str_Strong == <<"S","t","r","0","n","g","!","P","a","s","s">>
Str_Other == <<"N","e","w","P","a","s","s","#","9">>
Str_weak == <<"w","e","a","k">>
Str_en == <<"e","n">>

Str_ab == <<"a","@","b",".","c","o">>
Str_AB == <<"A","@","B",".","c","o">>
Str_ab_spaces == <<" ","a","@","b",".","c","o"," ">>
Str_ab_newline == <<"a","@","b",".","c","o","\n">>
Str_ab_bad == <<"a","@","b">>
Str_xy == <<"x","@","y",".","c","o">>
Str_blank == <<" ">>

\* what the callers send: <<name, email, password>> for a registration,
\* <<email, password>> for a login, and the passwords of a password change
RegisterInputs ==
    { <<Str_Ann, Str_ab, Str_Strong>>,
      <<Str_Ann, Str_AB, Str_Strong>>,
      <<Str_Ann, Str_ab_spaces, Str_Strong>>,
      <<Str_Ann, Str_ab_newline, Str_Strong>>,
      <<Str_Ann, Str_admin_email, Str_Strong>>,
      <<Str_Ann, Str_xy, Str_Strong>>,
      <<Str_blank, Str_ab, Str_Strong>>,
      <<<<>>, Str_ab_bad, Str_weak>>,
      <<Str_Ann, Str_ab_bad, Str_weak>>,
      <<Str_Ann, <<>>, Str_Strong>>,
      <<Str_Ann, Str_ab, Str_weak>>,
      <<Str_Ann, Str_AB, <<>>>> }
SignupInputs ==
    { <<Str_Ann, Str_ab_spaces, Str_Strong>>,
      <<Str_Ann, Str_AB, Str_Strong>> }
LoginInputs ==
    { <<Str_ab, Str_Strong>>,
      <<Str_ab_spaces, Str_Strong>>,
      <<Str_ab, Str_Other>>,
      <<Str_admin_email, Str_admin123>>,
      <<Str_admin_email, Str_Strong>>,
      <<Str_xy, Str_Strong>>,
      <<<<>>, Str_Strong>>,
      <<Str_ab, <<>>>> }
\* <<current password, new password>>
ChangeInputs ==
    { <<Str_Strong, Str_Other>>,
      <<Str_admin123, Str_Other>>,
      <<Str_Strong, Str_weak>>,
      <<Str_weak, Str_weak>>,
      <<Str_Other, Str_Other>> }
Salts == { "salt1", "salt2" }
\* the server's local time zone, hours east of UTC
TzOffsets == { -1, 0, 1 }
\* the passwords given to validate_password: each of the four character
\* classes present or absent, padded with 0, 4, 7 or 8 characters of no class
PasswordInputs ==
    { u \o l \o d \o s \o padding :
        u \in {<<>>, <<"A">>}, l \in {<<>>, <<"b">>},
        d \in {<<>>, <<"1">>}, s \in {<<>>, <<"!">>},
        padding \in {<<>>, <<"_","_","_","_">>,
                     <<"_","_","_","_","_","_","_">>,
                     <<"_","_","_","_","_","_","_","_">>} }
\* the dictionaries given to the preference and the profile updates
NotificationInputs ==
    { [recipe_notifications |-> FALSE],
      [shopping_notifications |-> TRUE, tips_notifications |-> FALSE],
      [meal_plan_notifications |-> FALSE, recipe_notifications |-> TRUE],
      [is_active |-> FALSE, push_notifications |-> TRUE] }
PrivacyInputs ==
    { [allow_sharing |-> FALSE],
      [tips_notifications |-> FALSE, is_verified |-> TRUE] }
ProfileInputs ==
    { [name |-> <<"A","n","n","e">>, is_active |-> TRUE],
      [email |-> Str_xy, is_verified |-> TRUE],
      [preferred_language |-> <<"f","r">>,
       password_hash |-> <<"bcrypt", "salt1", Str_Other>>] }
\* where an exception may be raised in register_user
RegisterFaults == { "commit", "create_access_token", "create_user_session",
                    "to_dict" }
\* the e-mails of the reset requests, the tokens and the new passwords of the
\* reset confirmations
ResetEmails == { Str_ab, Str_AB, Str_xy, Str_admin_email }
ResetTokens == { "reset1", "reset2" }
ResetPasswords == { Str_Strong, Str_Other, Str_weak }
\* the workers that serve requests side by side
Workers == { "w1", "w2" }
IpAddresses == { "10.0.0.1" }
UserAgents == { "Mozilla" }

\* ------------------------------------------------------------------- state
VARIABLES
    users,      \* table users: id -> row
    sessions,   \* table user_sessions: id -> row
    tokens,     \* the access tokens handed to callers
    jtis,       \* how many token ids the random source has produced
    now,        \* datetime.utcnow(), in hours
    tz,         \* local time minus UTC, in hours
    inflight,   \* per worker: the call it has begun and not yet finished
    resp        \* the last call and what it returned

vars == <<users, sessions, tokens, jtis, now, tz, inflight, resp>>

Max(S) == IF S = {} THEN 0 ELSE CHOOSE x \in S : \A y \in S : y <= x

\* the primary key the table gives a new row
NextId(table) == Max(DOMAIN table) + 1

Insert(table, row) == [i \in DOMAIN table \cup {row.id} |->
                          IF i = row.id THEN row ELSE table[i]]

\* bcrypt.hashpw(password, salt): the salt is kept in the hash
hashpw(password, salt) == <<"bcrypt", salt, password>>

\* bcrypt.checkpw(password, hashed): hashes again with the salt of the hash
checkpw(password, hashed) == hashpw(password, hashed[2]) = hashed

\* User.check_password
check_password(user, password) ==
    IF Len(password) = 0 \/ Len(user.password_hash) = 0 THEN FALSE
    ELSE checkpw(password, user.password_hash)

\* User.__init__ followed by set_password and the column defaults
NewUser(id, name, email, preferred_language, password, salt) ==
    [ id |-> id,
      name |-> name,
      email |-> strip(lower(email)),
      password_hash |-> hashpw(password, salt),
      preferred_language |-> preferred_language,
      recipe_notifications |-> TRUE,
      meal_plan_notifications |-> TRUE,
      shopping_notifications |-> FALSE,
      tips_notifications |-> TRUE,
      allow_sharing |-> TRUE,
      analytics_enabled |-> TRUE,
      is_active |-> TRUE,
      is_verified |-> FALSE ]

\* the keys User.update_notification_preferences looks for
NotificationKeys == {"recipe_notifications", "meal_plan_notifications",
                     "shopping_notifications", "tips_notifications"}

\* the keys User.update_privacy_settings looks for
PrivacyKeys == {"allow_sharing", "analytics_enabled"}

\* an update that puts every key not given back to its column default
User_update_notification_preferences_replace(user, preferences) ==
    [f \in DOMAIN user |->
        IF f \in NotificationKeys
        THEN IF f \in DOMAIN preferences THEN preferences[f]
             ELSE f # "shopping_notifications"
        ELSE user[f]]

\* User.update_notification_preferences
User_update_notification_preferences(user, preferences) ==
    [f \in DOMAIN user |->
        IF f \in NotificationKeys \cap DOMAIN preferences
        THEN preferences[f] ELSE user[f]]

\* User.update_privacy_settings
User_update_privacy_settings(user, settings) ==
    [f \in DOMAIN user |->
        IF f \in PrivacyKeys \cap DOMAIN settings
        THEN settings[f] ELSE user[f]]

\* User.is_premium_user
is_premium_user(user) == FALSE

\* User.to_dict(): the public projection
to_dict(user) ==
    [ id |-> user.id, name |-> user.name, email |-> user.email,
      preferred_language |-> user.preferred_language,
      is_verified |-> user.is_verified ]

\* User.query.filter_by(email=email).first()
UsersByEmail(email) == {i \in DOMAIN users : users[i].email = email}

First(S) == CHOOSE x \in S : \A y \in S : x <= y

\* create_access_token(identity, expires_delta=timedelta(hours=1), additional_claims)
create_access_token(identity, additional_claims) ==
    [ type |-> "access", sub |-> identity, jti |-> <<"access", jtis + 1>>,
      exp |-> now + AccessTTL, claims |-> additional_claims ]

\* create_refresh_token(identity, expires_delta=timedelta(days=30))
create_refresh_token(identity) ==
    [ type |-> "refresh", sub |-> identity, jti |-> <<"refresh", jtis + 1>>,
      exp |-> now + RefreshTTL ]

\* get_jti(token)
get_jti(token) == token.jti

\* datetime.fromtimestamp(ts): the naive local time of a UTC timestamp
fromtimestamp(ts) == ts + tz

\* a session creation that stores nothing
create_user_session_dropped(sess, user_id, token, ip_address, user_agent) ==
    sess

\* a session creation that also sets is_active on the older sessions of
\* the user
create_user_session_reviving(sess, user_id, token, ip_address, user_agent) ==
    Insert([i \in DOMAIN sess |->
               IF sess[i].user_id = user_id
               THEN [sess[i] EXCEPT !.is_active = TRUE] ELSE sess[i]],
           [ id |-> NextId(sess),
             user_id |-> user_id,
             session_token |-> get_jti(token),
             ip_address |-> ip_address,
             user_agent |-> user_agent,
             is_active |-> TRUE,
             created_at |-> now,
             last_activity |-> now,
             expires_at |-> fromtimestamp(token.exp) ])

\* create_user_session: the table after the insert.  A token id that is
\* already in the table breaks the unique constraint; the error is logged
\* and the table is left as it was.
create_user_session(sess, user_id, token, ip_address, user_agent) ==
    IF \E i \in DOMAIN sess : sess[i].session_token = get_jti(token)
    THEN sess
    ELSE Insert(sess,
           [ id |-> NextId(sess),
             user_id |-> user_id,
             session_token |-> get_jti(token),
             ip_address |-> ip_address,
             user_agent |-> user_agent,
             is_active |-> TRUE,
             created_at |-> now,
             last_activity |-> now,
             expires_at |-> fromtimestamp(token.exp) ])

\* UserSession.is_expired
is_expired(session) == now > session.expires_at

\* a revoke that flips the flag instead of clearing it
revoke_toggle(session) == [session EXCEPT !.is_active = ~@]

\* UserSession.revoke
revoke(session) == [session EXCEPT !.is_active = FALSE]

\* an update_activity that also slides the expiry forward
update_activity_sliding(session) ==
    [session EXCEPT !.last_activity = now, !.expires_at = now + AccessTTL]

\* UserSession.update_activity
update_activity(session) == [session EXCEPT !.last_activity = now]

\* a failure result
Fail(message) == [success |-> FALSE, message |-> message]

\* what a call leaves in resp: its name, what it was given, what it returned
Call(op, args, result) == [op |-> op, args |-> args, result |-> result]

\* a worker that is between two requests
Idle == [op |-> "idle"]

\* create_app: the tables are dropped and created again, and the default
\* administrator is inserted.
Init ==
    /\ now = 0
    /\ tz \in TzOffsets
    /\ users = Insert(<<>>, NewUser(1, Str_admin_name, Str_admin_email, Str_en,
                                    Str_admin123, "salt1"))
    /\ sessions = <<>>
    /\ tokens = {}
    /\ jtis = 0
    /\ inflight = [w \in Workers |-> Idle]
    /\ resp = Call("init", <<>>, <<>>)

\* the clock advances by an hour
Tick ==
    /\ now < MaxTime
    /\ now' = now + 1
    /\ resp' = Call("tick", <<>>, <<>>)
    /\ UNCHANGED <<users, sessions, tokens, jtis, tz, inflight>>

\* the input checks with the password checked before the e-mail
RegisterInputError_password_first(name, email, password) ==
    IF Len(name) = 0 \/ Len(strip(name)) = 0
      THEN "Name is required"
    ELSE IF ~validate_password(password)[1]
      THEN Join(validate_password(password)[2])
    ELSE IF Len(email) = 0 \/ ~validate_email(email)
      THEN "Valid email is required"
    ELSE None

\* register_user, the input checks: the message of the first check that
\* fails, None when all pass
RegisterInputError(name, email, password) ==
    IF Len(name) = 0 \/ Len(strip(name)) = 0
      THEN "Name is required"
    ELSE IF Len(email) = 0 \/ ~validate_email(email)
      THEN "Valid email is required"
    ELSE IF ~validate_password(password)[1]
      THEN Join(validate_password(password)[2])
    ELSE None

\* AuthenticationService.register_user
register_user(name, email, password, preferred_language) ==
    LET args == [name |-> name, email |-> email, password |-> password]
        clean == strip(lower(email))
        failed(message) ==
            /\ resp' = Call("register_user", args, Fail(message))
            /\ UNCHANGED <<users, sessions, tokens, jtis, now, tz, inflight>>
    IN  IF RegisterInputError(name, email, password) # None
          THEN failed(RegisterInputError(name, email, password))
        ELSE IF UsersByEmail(clean) # {}
          THEN failed("Email already registered")
        ELSE
          /\ Cardinality(DOMAIN users) < MaxUsers
          /\ jtis < MaxTokens
          /\ \E salt \in Salts :
               LET user == NewUser(NextId(users), strip(name), clean,
                                   preferred_language, password, salt)
                   access_token == create_access_token(user.id,
                       [user_type |-> "regular", email |-> user.email])
                   refresh_token == create_refresh_token(user.id)
               IN  /\ users' = Insert(users, user)
                   /\ sessions' = create_user_session(sessions, user.id,
                                        access_token, None, None)
                   /\ tokens' = tokens \cup {access_token}
                   /\ jtis' = jtis + 1
                   /\ resp' = Call("register_user", args,
                        [ success |-> TRUE,
                          message |-> "User registered successfully",
                          user |-> to_dict(user),
                          access_token |-> access_token,
                          refresh_token |-> refresh_token ])
                   /\ UNCHANGED <<now, tz, inflight>>

\* register_user when an exception is raised after the input checks, at
\*   "commit"              db.session.commit() of the new user
\*   "create_access_token" the token creation, after the user is committed
\*   "create_user_session" inside create_user_session, which logs and
\*                         swallows it: no session is stored and the call
\*                         goes on
\*   "to_dict"             building the response
\* For the others the handler rolls back what is not committed and returns
\* 'Registration failed'.
register_user_fault(name, email, password, preferred_language, fault) ==
    LET args == [name |-> name, email |-> email, password |-> password,
                 fault |-> fault]
        clean == strip(lower(email))
    IN  /\ RegisterInputError(name, email, password) = None
        /\ UsersByEmail(clean) = {}
        /\ Cardinality(DOMAIN users) < MaxUsers
        /\ jtis < MaxTokens
        /\ \E salt \in Salts :
             LET user == NewUser(NextId(users), strip(name), clean,
                                 preferred_language, password, salt)
                 access_token == create_access_token(user.id,
                     [user_type |-> "regular", email |-> user.email])
                 refresh_token == create_refresh_token(user.id)
                 failure == Call("register_user", args,
                                 Fail("Registration failed"))
             IN  CASE fault = "commit" ->
                        /\ resp' = failure
                        /\ UNCHANGED <<users, sessions, tokens, jtis>>
                   [] fault = "create_access_token" ->
                        /\ users' = Insert(users, user)
                        /\ resp' = failure
                        /\ UNCHANGED <<sessions, tokens, jtis>>
                   [] fault = "create_user_session" ->
                        /\ users' = Insert(users, user)
                        /\ tokens' = tokens \cup {access_token}
                        /\ jtis' = jtis + 1
                        /\ resp' = Call("register_user", args,
                             [ success |-> TRUE,
                               message |-> "User registered successfully",
                               user |-> to_dict(user),
                               access_token |-> access_token,
                               refresh_token |-> refresh_token ])
                        /\ UNCHANGED sessions
                   [] fault = "to_dict" ->
                        /\ users' = Insert(users, user)
                        /\ sessions' = create_user_session(sessions, user.id,
                                             access_token, None, None)
                        /\ jtis' = jtis + 1
                        /\ resp' = failure
                        /\ UNCHANGED tokens
        /\ UNCHANGED <<now, tz, inflight>>

\* register_user by worker w, up to the existence check: the inputs pass the
\* checks and the query finds no user with the cleaned e-mail; nothing is
\* written yet
register_user_check(w, name, email, password, preferred_language) ==
    /\ inflight[w] = Idle
    /\ RegisterInputError(name, email, password) = None
    /\ UsersByEmail(strip(lower(email))) = {}
    /\ inflight' = [inflight EXCEPT ![w] =
                       [op |-> "register_user", name |-> name, email |-> email,
                        password |-> password,
                        preferred_language |-> preferred_language]]
    /\ resp' = Call("register_user_check",
                    [worker |-> w, name |-> name, email |-> email,
                     password |-> password], <<>>)
    /\ UNCHANGED <<users, sessions, tokens, jtis, now, tz>>

\* an insert into a table that has no unique constraint on the e-mail
register_user_insert_no_constraint(w) ==
    /\ inflight[w].op = "register_user"
    /\ jtis < MaxTokens
    /\ \E salt \in Salts :
         LET c == inflight[w]
             user == NewUser(NextId(users), strip(c.name), strip(lower(c.email)),
                             c.preferred_language, c.password, salt)
             access_token == create_access_token(user.id,
                 [user_type |-> "regular", email |-> user.email])
         IN  /\ users' = Insert(users, user)
             /\ sessions' = create_user_session(sessions, user.id,
                                  access_token, None, None)
             /\ tokens' = tokens \cup {access_token}
             /\ resp' = Call("register_user",
                    [worker |-> w, name |-> c.name, email |-> c.email,
                     password |-> c.password],
                    [ success |-> TRUE,
                      message |-> "User registered successfully",
                      user |-> to_dict(user),
                      access_token |-> access_token,
                      refresh_token |-> create_refresh_token(user.id) ])
    /\ jtis' = jtis + 1
    /\ inflight' = [inflight EXCEPT ![w] = Idle]
    /\ UNCHANGED <<now, tz>>

\* register_user by worker w, from db.session.add(user) to the return.  The
\* e-mail column is unique: when a user with the e-mail has been committed
\* since the check, the commit raises, the handler rolls back and returns
\* 'Registration failed'.
register_user_insert(w) ==
    /\ inflight[w].op = "register_user"
    /\ LET c == inflight[w]
           args == [worker |-> w, name |-> c.name, email |-> c.email,
                    password |-> c.password]
           clean == strip(lower(c.email))
       IN  IF UsersByEmail(clean) # {}
           THEN /\ resp' = Call("register_user", args,
                                Fail("Registration failed"))
                /\ UNCHANGED <<users, sessions, tokens, jtis>>
           ELSE /\ Cardinality(DOMAIN users) < MaxUsers
                /\ jtis < MaxTokens
                /\ \E salt \in Salts :
                     LET user == NewUser(NextId(users), strip(c.name), clean,
                                         c.preferred_language, c.password, salt)
                         access_token == create_access_token(user.id,
                             [user_type |-> "regular", email |-> user.email])
                         refresh_token == create_refresh_token(user.id)
                     IN  /\ users' = Insert(users, user)
                         /\ sessions' = create_user_session(sessions, user.id,
                                              access_token, None, None)
                         /\ tokens' = tokens \cup {access_token}
                         /\ jtis' = jtis + 1
                         /\ resp' = Call("register_user", args,
                              [ success |-> TRUE,
                                message |-> "User registered successfully",
                                user |-> to_dict(user),
                                access_token |-> access_token,
                                refresh_token |-> refresh_token ])
    /\ inflight' = [inflight EXCEPT ![w] = Idle]
    /\ UNCHANGED <<now, tz>>

\* routes/auth.py signup: the name and the e-mail are stripped before the
\* service is called
signup(name, email, password) ==
    register_user(strip(name), strip(email), password, Str_en)

\* the lookup without the is_active filter
ActiveUsersByEmail_any(email) == {i \in DOMAIN users : users[i].email = email}

\* User.query.filter_by(email=email, is_active=True)
ActiveUsersByEmail(email) ==
    {i \in DOMAIN users : users[i].email = email /\ users[i].is_active}

\* the claims authenticate_user and refresh_access_token put in the access token
additional_claims(user) ==
    [ user_type |-> IF is_premium_user(user) THEN "premium" ELSE "regular",
      email |-> user.email,
      preferred_language |-> user.preferred_language ]

\* AuthenticationService.authenticate_user
authenticate_user(email, password, ip_address, user_agent) ==
    LET args == [email |-> email, password |-> password]
        clean == strip(lower(email))
        found == ActiveUsersByEmail(clean)
        failed(message) ==
            /\ resp' = Call("authenticate_user", args, Fail(message))
            /\ UNCHANGED <<users, sessions, tokens, jtis, now, tz, inflight>>
    IN  IF Len(email) = 0 \/ Len(password) = 0
          THEN failed("Email and password are required")
        ELSE IF found = {} \/ ~check_password(users[First(found)], password)
          THEN failed("Invalid credentials")
        ELSE
          LET user == users[First(found)]
              access_token == create_access_token(user.id, additional_claims(user))
              refresh_token == create_refresh_token(user.id)
          IN  /\ jtis < MaxTokens
              /\ sessions' = create_user_session(sessions, user.id, access_token,
                                                  ip_address, user_agent)
              /\ tokens' = tokens \cup {access_token}
              /\ jtis' = jtis + 1
              /\ resp' = Call("authenticate_user", args,
                   [ success |-> TRUE,
                     message |-> "Login successful",
                     user |-> to_dict(user),
                     access_token |-> access_token,
                     refresh_token |-> refresh_token ])
              /\ UNCHANGED <<users, now, tz, inflight>>

\* a refresh that opens a session for the new access token
refresh_access_token_with_session(user_id) ==
    /\ user_id \in DOMAIN users
    /\ users[user_id].is_active
    /\ jtis < MaxTokens
    /\ LET access_token == create_access_token(user_id,
                                additional_claims(users[user_id]))
       IN  /\ sessions' = create_user_session(sessions, user_id, access_token,
                                               None, None)
           /\ tokens' = tokens \cup {access_token}
           /\ resp' = Call("refresh_access_token", [user_id |-> user_id],
                           [success |-> TRUE, access_token |-> access_token])
    /\ jtis' = jtis + 1
    /\ UNCHANGED <<users, now, tz, inflight>>

\* authenticate_user when the random source of the token ids gives the id
\* jti: create_user_session inserts the session unless the id is in the
\* table already; then the commit breaks the unique constraint, the error
\* is logged and swallowed there, and the login goes on
authenticate_user_with_jti(email, password, ip_address, user_agent, jti) ==
    LET args == [email |-> email, password |-> password]
        found == ActiveUsersByEmail(strip(lower(email)))
    IN  /\ Len(email) > 0
        /\ Len(password) > 0
        /\ found # {}
        /\ check_password(users[First(found)], password)
        /\ jtis < MaxTokens
        /\ LET user == users[First(found)]
               access_token ==
                   [create_access_token(user.id, additional_claims(user))
                       EXCEPT !.jti = jti]
               refresh_token == create_refresh_token(user.id)
           IN  /\ sessions' = create_user_session(sessions, user.id, access_token,
                                                   ip_address, user_agent)
               /\ tokens' = tokens \cup {access_token}
               /\ jtis' = jtis + 1
               /\ resp' = Call("authenticate_user", args,
                    [ success |-> TRUE,
                      message |-> "Login successful",
                      user |-> to_dict(user),
                      access_token |-> access_token,
                      refresh_token |-> refresh_token ])
        /\ UNCHANGED <<users, now, tz, inflight>>

\* AuthenticationService.refresh_access_token
refresh_access_token(user_id) ==
    LET args == [user_id |-> user_id]
    IN  IF user_id \notin DOMAIN users \/ ~users[user_id].is_active
          THEN /\ resp' = Call("refresh_access_token", args,
                               Fail("User not found or inactive"))
               /\ UNCHANGED <<users, sessions, tokens, jtis, now, tz, inflight>>
        ELSE
          LET user == users[user_id]
              access_token == create_access_token(user.id, additional_claims(user))
          IN  /\ jtis < MaxTokens
              /\ tokens' = tokens \cup {access_token}
              /\ jtis' = jtis + 1
              /\ resp' = Call("refresh_access_token", args,
                              [success |-> TRUE, access_token |-> access_token])
              /\ UNCHANGED <<users, sessions, now, tz, inflight>>

\* UserSession.query.filter_by(session_token=session_token)
SessionsByToken(session_token) ==
    {i \in DOMAIN sessions : sessions[i].session_token = session_token}

\* a revocation that ends every session of the user who holds the token
RevokeSession_whole_user(session_token) ==
    IF SessionsByToken(session_token) # {}
    THEN [i \in DOMAIN sessions |->
            IF sessions[i].user_id =
                  sessions[First(SessionsByToken(session_token))].user_id
            THEN revoke(sessions[i]) ELSE sessions[i]]
    ELSE sessions

\* revoke_user_session: the table afterwards
RevokeSession(session_token) ==
    IF SessionsByToken(session_token) # {}
    THEN [sessions EXCEPT ![First(SessionsByToken(session_token))] = revoke(@)]
    ELSE sessions

\* AuthenticationService.revoke_user_session
revoke_user_session(session_token) ==
    /\ sessions' = RevokeSession(session_token)
    /\ resp' = Call("revoke_user_session", [session_token |-> session_token],
                    SessionsByToken(session_token) # {})
    /\ UNCHANGED <<users, tokens, jtis, now, tz, inflight>>

\* the query without the user_id filter
ActiveSessionsOf_anyone(user_id) ==
    {i \in DOMAIN sessions : sessions[i].is_active}

\* UserSession.query.filter_by(user_id=user_id, is_active=True).all()
ActiveSessionsOf(user_id) ==
    {i \in DOMAIN sessions :
        sessions[i].user_id = user_id /\ sessions[i].is_active}

\* a revoke-all that takes .first() instead of .all()
RevokeAll_first_only(user_id) ==
    [i \in DOMAIN sessions |->
        IF ActiveSessionsOf(user_id) # {} /\ i = First(ActiveSessionsOf(user_id))
        THEN revoke(sessions[i])
        ELSE sessions[i]]

\* revoke_all_user_sessions by worker w, the query: the active sessions of
\* the user as the table holds them now
revoke_all_user_sessions_query(w, user_id) ==
    /\ inflight[w] = Idle
    /\ inflight' = [inflight EXCEPT ![w] =
                       [op |-> "revoke_all_user_sessions", user_id |-> user_id,
                        sessions |-> ActiveSessionsOf(user_id)]]
    /\ resp' = Call("revoke_all_user_sessions_query",
                    [worker |-> w, user_id |-> user_id], <<>>)
    /\ UNCHANGED <<users, sessions, tokens, jtis, now, tz>>

\* a commit that writes nothing when the table has grown since the query
revoke_all_user_sessions_commit_stale(w) ==
    /\ inflight[w].op = "revoke_all_user_sessions"
    /\ sessions' =
          [i \in DOMAIN sessions |->
              IF /\ i \in inflight[w].sessions
                 /\ ActiveSessionsOf(inflight[w].user_id) \subseteq inflight[w].sessions
              THEN revoke(sessions[i]) ELSE sessions[i]]
    /\ resp' = Call("revoke_all_user_sessions",
                    [worker |-> w, user_id |-> inflight[w].user_id],
                    Cardinality(inflight[w].sessions))
    /\ inflight' = [inflight EXCEPT ![w] = Idle]
    /\ UNCHANGED <<users, tokens, jtis, now, tz>>

\* revoke_all_user_sessions by worker w, the loop and the commit: the
\* sessions the query returned are revoked, and their number is returned
revoke_all_user_sessions_commit(w) ==
    /\ inflight[w].op = "revoke_all_user_sessions"
    /\ sessions' = [i \in DOMAIN sessions |->
                       IF i \in inflight[w].sessions THEN revoke(sessions[i])
                       ELSE sessions[i]]
    /\ resp' = Call("revoke_all_user_sessions",
                    [worker |-> w, user_id |-> inflight[w].user_id],
                    Cardinality(inflight[w].sessions))
    /\ inflight' = [inflight EXCEPT ![w] = Idle]
    /\ UNCHANGED <<users, tokens, jtis, now, tz>>

\* revoke_all_user_sessions: the table afterwards
RevokeAll(user_id) ==
    [i \in DOMAIN sessions |->
        IF i \in ActiveSessionsOf(user_id) THEN revoke(sessions[i])
        ELSE sessions[i]]

\* AuthenticationService.revoke_all_user_sessions
revoke_all_user_sessions(user_id) ==
    /\ sessions' = RevokeAll(user_id)
    /\ resp' = Call("revoke_all_user_sessions", [user_id |-> user_id],
                    Cardinality(ActiveSessionsOf(user_id)))
    /\ UNCHANGED <<users, tokens, jtis, now, tz, inflight>>

\* a change_user_password that looks at the new password before it
\* verifies the current one
change_user_password_policy_first(user_id, current_password, new_password) ==
    LET args == [user_id |-> user_id, current_password |-> current_password,
                 new_password |-> new_password]
        failed(message) ==
            /\ resp' = Call("change_user_password", args, Fail(message))
            /\ UNCHANGED <<users, sessions, tokens, jtis, now, tz, inflight>>
    IN  IF user_id \notin DOMAIN users
          THEN failed("User not found")
        ELSE IF ~validate_password(new_password)[1]
          THEN failed(Join(validate_password(new_password)[2]))
        ELSE IF ~check_password(users[user_id], current_password)
          THEN failed("Current password is incorrect")
        ELSE
          /\ \E salt \in Salts :
               users' = [users EXCEPT ![user_id].password_hash =
                                          hashpw(new_password, salt)]
          /\ sessions' = RevokeAll(user_id)
          /\ resp' = Call("change_user_password", args,
                          [success |-> TRUE,
                           message |-> "Password changed successfully"])
          /\ UNCHANGED <<tokens, jtis, now, tz, inflight>>

\* AuthenticationService.change_user_password
change_user_password(user_id, current_password, new_password) ==
    LET args == [user_id |-> user_id, current_password |-> current_password,
                 new_password |-> new_password]
        failed(message) ==
            /\ resp' = Call("change_user_password", args, Fail(message))
            /\ UNCHANGED <<users, sessions, tokens, jtis, now, tz, inflight>>
    IN  IF user_id \notin DOMAIN users
          THEN failed("User not found")
        ELSE IF ~check_password(users[user_id], current_password)
          THEN failed("Current password is incorrect")
        ELSE IF ~validate_password(new_password)[1]
          THEN failed(Join(validate_password(new_password)[2]))
        ELSE
          /\ \E salt \in Salts :
               users' = [users EXCEPT ![user_id].password_hash =
                                          hashpw(new_password, salt)]
          /\ sessions' = RevokeAll(user_id)
          /\ resp' = Call("change_user_password", args,
                          [success |-> TRUE,
                           message |-> "Password changed successfully"])
          /\ UNCHANGED <<tokens, jtis, now, tz, inflight>>

\* a deactivation that clears the flag of the user and leaves the sessions
deactivate_user_account_keeps_sessions(user_id) ==
    /\ user_id \in DOMAIN users
    /\ users' = [users EXCEPT ![user_id].is_active = FALSE]
    /\ resp' = Call("deactivate_user_account", [user_id |-> user_id],
                    [success |-> TRUE,
                     message |-> "Account deactivated successfully"])
    /\ UNCHANGED <<sessions, tokens, jtis, now, tz, inflight>>

\* AuthenticationService.deactivate_user_account
deactivate_user_account(user_id) ==
    LET args == [user_id |-> user_id]
    IN  IF user_id \notin DOMAIN users
          THEN /\ resp' = Call("deactivate_user_account", args,
                               Fail("User not found"))
               /\ UNCHANGED <<users, sessions, tokens, jtis, now, tz, inflight>>
        ELSE
          /\ users' = [users EXCEPT ![user_id].is_active = FALSE]
          /\ sessions' = RevokeAll(user_id)
          /\ resp' = Call("deactivate_user_account", args,
                          [success |-> TRUE,
                           message |-> "Account deactivated successfully"])
          /\ UNCHANGED <<tokens, jtis, now, tz, inflight>>

\* the fields update_user_profile may write
updateable_fields == {"name", "phone", "bio", "preferred_language",
                      "default_servings", "skill_level",
                      "dietary_restrictions", "favorite_cuisines"}

\* an update_user_profile that writes every column the input names
update_user_profile_any_field(user_id, kwargs) ==
    LET args == [user_id |-> user_id, kwargs |-> kwargs]
    IN  IF user_id \notin DOMAIN users
          THEN /\ resp' = Call("update_user_profile", args,
                               Fail("User not found"))
               /\ UNCHANGED <<users, sessions, tokens, jtis, now, tz, inflight>>
        ELSE
          LET user == [f \in DOMAIN users[user_id] |->
                          IF f \in DOMAIN kwargs
                          THEN kwargs[f] ELSE users[user_id][f]]
          IN  /\ users' = [users EXCEPT ![user_id] = user]
              /\ resp' = Call("update_user_profile", args,
                              [success |-> TRUE,
                               message |-> "Profile updated successfully",
                               user |-> to_dict(user)])
              /\ UNCHANGED <<sessions, tokens, jtis, now, tz, inflight>>

\* AuthenticationService.update_user_profile, for the columns the rows keep
update_user_profile(user_id, kwargs) ==
    LET args == [user_id |-> user_id, kwargs |-> kwargs]
    IN  IF user_id \notin DOMAIN users
          THEN /\ resp' = Call("update_user_profile", args,
                               Fail("User not found"))
               /\ UNCHANGED <<users, sessions, tokens, jtis, now, tz, inflight>>
        ELSE
          LET user == [f \in DOMAIN users[user_id] |->
                          IF f \in updateable_fields \cap DOMAIN kwargs
                          THEN kwargs[f] ELSE users[user_id][f]]
          IN  /\ users' = [users EXCEPT ![user_id] = user]
              /\ resp' = Call("update_user_profile", args,
                              [success |-> TRUE,
                               message |-> "Profile updated successfully",
                               user |-> to_dict(user)])
              /\ UNCHANGED <<sessions, tokens, jtis, now, tz, inflight>>

\* AuthenticationService.update_notification_preferences
update_notification_preferences(user_id, preferences) ==
    LET args == [user_id |-> user_id, preferences |-> preferences]
    IN  IF user_id \notin DOMAIN users
          THEN /\ resp' = Call("update_notification_preferences", args,
                               Fail("User not found"))
               /\ UNCHANGED <<users, sessions, tokens, jtis, now, tz, inflight>>
        ELSE
          /\ users' = [users EXCEPT ![user_id] =
                          User_update_notification_preferences(@, preferences)]
          /\ resp' = Call("update_notification_preferences", args,
                          [success |-> TRUE,
                           message |-> "Notification preferences updated"])
          /\ UNCHANGED <<sessions, tokens, jtis, now, tz, inflight>>

\* AuthenticationService.update_privacy_settings
update_privacy_settings(user_id, settings) ==
    LET args == [user_id |-> user_id, settings |-> settings]
    IN  IF user_id \notin DOMAIN users
          THEN /\ resp' = Call("update_privacy_settings", args,
                               Fail("User not found"))
               /\ UNCHANGED <<users, sessions, tokens, jtis, now, tz, inflight>>
        ELSE
          /\ users' = [users EXCEPT ![user_id] =
                          User_update_privacy_settings(@, settings)]
          /\ resp' = Call("update_privacy_settings", args,
                          [success |-> TRUE,
                           message |-> "Privacy settings updated"])
          /\ UNCHANGED <<sessions, tokens, jtis, now, tz, inflight>>

\* the rows of a table without those that match
Delete(table, gone) == [i \in DOMAIN table \ gone |-> table[i]]

\* the user_sessions relationship: the sessions a user owns
user_sessions(user_id) == {i \in DOMAIN sessions : sessions[i].user_id = user_id}

\* a delete that leaves the sessions of the user in the table
delete_user_account_no_cascade(user_id) ==
    /\ user_id \in DOMAIN users
    /\ users' = Delete(users, {user_id})
    /\ resp' = Call("delete_user_account", [user_id |-> user_id],
                    [success |-> TRUE, message |-> "Account deleted permanently"])
    /\ UNCHANGED <<sessions, tokens, jtis, now, tz, inflight>>

\* AuthenticationService.delete_user_account: db.session.delete(user) removes
\* the user and, by cascade='all, delete-orphan', the sessions it owns
delete_user_account(user_id) ==
    LET args == [user_id |-> user_id]
    IN  IF user_id \notin DOMAIN users
          THEN /\ resp' = Call("delete_user_account", args,
                               Fail("User not found"))
               /\ UNCHANGED <<users, sessions, tokens, jtis, now, tz, inflight>>
        ELSE
          /\ users' = Delete(users, {user_id})
          /\ sessions' = Delete(sessions, user_sessions(user_id))
          /\ resp' = Call("delete_user_account", args,
                          [success |-> TRUE,
                           message |-> "Account deleted permanently"])
          /\ UNCHANGED <<tokens, jtis, now, tz, inflight>>

\* a reset request that tells the caller when the e-mail is unknown
generate_password_reset_token_reveals(email) ==
    /\ resp' = Call("generate_password_reset_token", [email |-> email],
           IF UsersByEmail(strip(lower(email))) = {}
           THEN Fail("No account with this email")
           ELSE [success |-> TRUE,
                 message |-> "If the email exists, a reset link has been sent"])
    /\ UNCHANGED <<users, sessions, tokens, jtis, now, tz, inflight>>

\* AuthenticationService.generate_secure_token: a random token
generate_secure_token == ResetTokens

\* AuthenticationService.generate_password_reset_token: for a known e-mail a
\* token is drawn, and then neither stored nor sent
generate_password_reset_token(email) ==
    /\ IF UsersByEmail(strip(lower(email))) = {}
         THEN resp' = Call("generate_password_reset_token", [email |-> email],
                  [success |-> TRUE,
                   message |-> "If the email exists, a reset link has been sent"])
         ELSE \E reset_token \in generate_secure_token :
                resp' = Call("generate_password_reset_token", [email |-> email],
                  [success |-> TRUE,
                   message |-> "If the email exists, a reset link has been sent"])
    /\ UNCHANGED <<users, sessions, tokens, jtis, now, tz, inflight>>

\* AuthenticationService.reset_password_with_token: the new password is
\* checked against the policy; the token is not looked up and no password
\* is written
reset_password_with_token(token, new_password) ==
    /\ resp' = Call("reset_password_with_token",
                    [token |-> token, new_password |-> new_password],
                    IF ~validate_password(new_password)[1]
                    THEN Fail(Join(validate_password(new_password)[2]))
                    ELSE [success |-> TRUE,
                          message |-> "Password has been reset successfully"])
    /\ UNCHANGED <<users, sessions, tokens, jtis, now, tz, inflight>>

\* UserSession.query.filter_by(session_token=session_token, is_active=True)
ActiveSessionsByToken(session_token) ==
    {i \in DOMAIN sessions :
        sessions[i].session_token = session_token /\ sessions[i].is_active}

\* AuthenticationService.is_session_valid
is_session_valid(session_token) ==
    LET args == [session_token |-> session_token]
        found == ActiveSessionsByToken(session_token)
    IN  /\ IF found = {}
             THEN /\ resp' = Call("is_session_valid", args, FALSE)
                  /\ UNCHANGED sessions
           ELSE IF is_expired(sessions[First(found)])
             THEN /\ sessions' = [sessions EXCEPT ![First(found)] = revoke(@)]
                  /\ resp' = Call("is_session_valid", args, FALSE)
           ELSE   /\ sessions' = [sessions EXCEPT ![First(found)] =
                                                      update_activity(@)]
                  /\ resp' = Call("is_session_valid", args, TRUE)
        /\ UNCHANGED <<users, tokens, jtis, now, tz, inflight>>

\* @jwt_required(): the handler runs when the signature, the type and the
\* expiry of the token are in order (a token is expired once its exp is not
\* in the future).  The application registers no blocklist callback with
\* JWTManager and no handler calls is_session_valid.
jwt_required(token) == token.type = "access" /\ now < token.exp

\* get_jwt_identity()
get_jwt_identity(token) == token.sub

\* routes/auth.py logout
logout(token) ==
    /\ jwt_required(token)
    /\ sessions' = RevokeSession(get_jti(token))
    /\ resp' = Call("logout", [token |-> token],
                    [success |-> TRUE, message |-> "Logged out successfully",
                     status |-> 200])
    /\ UNCHANGED <<users, tokens, jtis, now, tz, inflight>>

\* routes/auth.py revoke_all_sessions
revoke_all_sessions(token) ==
    /\ jwt_required(token)
    /\ sessions' = RevokeAll(get_jwt_identity(token))
    /\ resp' = Call("revoke_all_sessions", [token |-> token],
                    [success |-> TRUE,
                     revoked_count |->
                         Cardinality(ActiveSessionsOf(get_jwt_identity(token))),
                     status |-> 200])
    /\ UNCHANGED <<users, tokens, jtis, now, tz, inflight>>

\* AuthenticationService.get_user_sessions: the ids of the active sessions
get_user_sessions(user_id) ==
    [success |-> TRUE, sessions |-> ActiveSessionsOf(user_id)]

\* routes/auth.py get_sessions
get_sessions(token) ==
    /\ jwt_required(token)
    /\ resp' = Call("get_sessions", [token |-> token],
                    get_user_sessions(get_jwt_identity(token)) @@ [status |-> 200])
    /\ UNCHANGED <<users, sessions, tokens, jtis, now, tz, inflight>>

\* routes/auth.py profile (PUT)
profile(token, data) ==
    /\ jwt_required(token)
    /\ update_user_profile(get_jwt_identity(token), data)

\* routes/auth.py change_password
change_password(token, current_password, new_password) ==
    /\ jwt_required(token)
    /\ IF Len(current_password) = 0 \/ Len(new_password) = 0
         THEN /\ resp' = Call("change_password",
                              [token |-> token,
                               current_password |-> current_password,
                               new_password |-> new_password],
                              Fail("Current and new passwords are required")
                                  @@ [status |-> 400])
              /\ UNCHANGED <<users, sessions, tokens, jtis, now, tz, inflight>>
         ELSE change_user_password(get_jwt_identity(token), current_password,
                                   new_password)

\* routes/auth.py update_notifications
update_notifications(token, data) ==
    /\ jwt_required(token)
    /\ update_notification_preferences(get_jwt_identity(token), data)

\* routes/auth.py update_privacy
update_privacy(token, data) ==
    /\ jwt_required(token)
    /\ update_privacy_settings(get_jwt_identity(token), data)

\* routes/auth.py deactivate_account
deactivate_account(token) ==
    /\ jwt_required(token)
    /\ deactivate_user_account(get_jwt_identity(token))

\* the user ids and the token ids a caller may name: those in use and one more
UserIds == 1..(Max(DOMAIN users) + 1)
TokenIds == {t.jti : t \in tokens} \cup {<<"access", 0>>}

\* ------------------------------------------------------------ the callers
\* Each step is one call; what the caller sends is drawn from the input sets.
Register == \E in \in RegisterInputs : register_user(in[1], in[2], in[3], Str_en)
Signup == \E in \in SignupInputs : signup(in[1], in[2], in[3])
Login == \E in \in LoginInputs, ip \in IpAddresses, ua \in UserAgents :
             authenticate_user(in[1], in[2], ip, ua)
Refresh == \E u \in UserIds : refresh_access_token(u)
RevokeOne == \E t \in TokenIds : revoke_user_session(t)
RevokeAllOf == \E u \in UserIds : revoke_all_user_sessions(u)
ChangePassword == \E u \in UserIds, in \in ChangeInputs :
                      change_user_password(u, in[1], in[2])
Deactivate == \E u \in UserIds : deactivate_user_account(u)
DeleteAccount == \E u \in UserIds : delete_user_account(u)
ResetRequest == \E email \in ResetEmails : generate_password_reset_token(email)
ResetConfirm == \E token \in ResetTokens, password \in ResetPasswords :
                    reset_password_with_token(token, password)
ValidatePassword ==
    \E password \in PasswordInputs :
        /\ resp' = Call("validate_password", [password |-> password],
                        validate_password(password))
        /\ UNCHANGED <<users, sessions, tokens, jtis, now, tz, inflight>>
UpdateProfile == \E u \in UserIds, kwargs \in ProfileInputs :
                     update_user_profile(u, kwargs)
UpdateNotifications == \E u \in UserIds, preferences \in NotificationInputs :
                           update_notification_preferences(u, preferences)
UpdatePrivacy == \E u \in UserIds, settings \in PrivacyInputs :
                     update_privacy_settings(u, settings)
\* the same operations as the routes offer them to the holder of a token;
\* the dictionaries name columns that the updates must not write
ProfileRoute == \E t \in tokens :
                    profile(t, [email |-> Str_xy, is_active |-> TRUE])
ChangePasswordRoute ==
    \E t \in tokens, in \in {<<Str_Strong, Str_Other>>, <<Str_admin123, Str_Other>>,
                             <<Str_Strong, <<>>>>} :
        change_password(t, in[1], in[2])
UpdateNotificationsRoute ==
    \E t \in tokens : update_notifications(t, [is_active |-> TRUE,
                                                push_notifications |-> TRUE])
UpdatePrivacyRoute ==
    \E t \in tokens : update_privacy(t, [is_active |-> TRUE])
DeactivateRoute == \E t \in tokens : deactivate_account(t)
RegisterFault ==
    \E email \in {Str_ab, Str_xy}, fault \in RegisterFaults :
        register_user_fault(Str_Ann, email, Str_Strong, Str_en, fault)
\* the calls that two workers serve at the same time, step by step
RegisterCheck == \E w \in Workers, email \in {Str_ab, Str_AB, Str_ab_newline} :
                     register_user_check(w, Str_Ann, email, Str_Strong, Str_en)
RegisterInsert == \E w \in Workers : register_user_insert(w)
RevokeAllQuery == \E w \in Workers, u \in DOMAIN users :
                      revoke_all_user_sessions_query(w, u)
RevokeAllCommit == \E w \in Workers : revoke_all_user_sessions_commit(w)
\* a login for which the random source repeats a token id it gave before
LoginRepeatedJti ==
    \E in \in {<<Str_ab, Str_Strong>>, <<Str_admin_email, Str_admin123>>},
       ip \in IpAddresses, ua \in UserAgents,
       jti \in {sessions[i].session_token : i \in DOMAIN sessions} :
        authenticate_user_with_jti(in[1], in[2], ip, ua, jti)
CheckSession == \E t \in TokenIds : is_session_valid(t)
Logout == \E t \in tokens : logout(t)
RevokeAllRoute == \E t \in tokens : revoke_all_sessions(t)
GetSessions == \E t \in tokens : get_sessions(t)

\* calls that succeed, for the runs that study what happens afterwards
RegisterAnn == register_user(Str_Ann, Str_ab, Str_Strong, Str_en)
LoginKnown == \E in \in {<<Str_ab, Str_Strong>>, <<Str_admin_email, Str_admin123>>},
                 ip \in IpAddresses, ua \in UserAgents :
                  authenticate_user(in[1], in[2], ip, ua)

\* the whole service
Next ==
    \/ Tick
    \/ Register
    \/ Signup
    \/ Login
    \/ Refresh
    \/ RevokeOne
    \/ RevokeAllOf
    \/ ChangePassword
    \/ Deactivate
    \/ DeleteAccount
    \/ ResetRequest
    \/ ResetConfirm
    \/ UpdateProfile
    \/ UpdateNotifications
    \/ UpdatePrivacy
    \/ ProfileRoute
    \/ ChangePasswordRoute
    \/ UpdateNotificationsRoute
    \/ UpdatePrivacyRoute
    \/ DeactivateRoute
    \/ ValidatePassword
    \/ RegisterFault
    \/ LoginRepeatedJti
    \/ RegisterCheck
    \/ RegisterInsert
    \/ RevokeAllQuery
    \/ RevokeAllCommit
    \/ CheckSession
    \/ Logout
    \/ RevokeAllRoute
    \/ GetSessions

Spec == Init /\ [][Next]_vars

\* registration and login
NextAccounts ==
    \/ Register
    \/ Signup
    \/ Login
    \/ Deactivate

SpecAccounts == Init /\ [][NextAccounts]_vars

\* the operations that issue tokens
NextTokens ==
    \/ Tick
    \/ Register
    \/ Login
    \/ Refresh

SpecTokens == Init /\ [][NextTokens]_vars

\* the life of a session: creation, use, revocation
NextSessions ==
    \/ Tick
    \/ RegisterAnn
    \/ LoginKnown
    \/ RevokeOne
    \/ RevokeAllOf
    \/ CheckSession
    \/ Logout
    \/ RevokeAllRoute
    \/ GetSessions

SpecSessions == Init /\ [][NextSessions]_vars

\* sessions and the password and account operations that end them
NextPassword ==
    \/ Tick
    \/ RegisterAnn
    \/ LoginKnown
    \/ ChangePassword
    \/ CheckSession

SpecPassword == Init /\ [][NextPassword]_vars

\* the life of an account: creation, use, deactivation, deletion
NextLifecycle ==
    \/ RegisterAnn
    \/ LoginKnown
    \/ Refresh
    \/ Deactivate
    \/ DeleteAccount

SpecLifecycle == Init /\ [][NextLifecycle]_vars

\* the password reset
NextReset ==
    \/ Tick
    \/ RegisterAnn
    \/ LoginKnown
    \/ ResetRequest
    \/ ResetConfirm

SpecReset == Init /\ [][NextReset]_vars

\* the password policy on its own
NextValidate ==
    \/ ValidatePassword

SpecValidate == Init /\ [][NextValidate]_vars

\* the preferences of a user
NextPreferences ==
    \/ RegisterAnn
    \/ UpdateNotifications
    \/ UpdatePrivacy

SpecPreferences == Init /\ [][NextPreferences]_vars

\* the profile of an account, in use and after its deactivation
NextProfile ==
    \/ RegisterAnn
    \/ LoginKnown
    \/ Deactivate
    \/ UpdateProfile

SpecProfile == Init /\ [][NextProfile]_vars

\* every operation that reads or writes a session or its user
NextRevocation ==
    \/ Tick
    \/ RegisterAnn
    \/ LoginKnown
    \/ Refresh
    \/ Logout
    \/ RevokeAllRoute
    \/ CheckSession
    \/ ChangePasswordRoute
    \/ DeactivateRoute
    \/ ProfileRoute
    \/ UpdateNotificationsRoute
    \/ UpdatePrivacyRoute

SpecRevocation == Init /\ [][NextRevocation]_vars

\* registration with a store and a token library that may fail
NextFaults ==
    \/ Tick
    \/ RegisterAnn
    \/ RegisterFault
    \/ LoginKnown
    \/ LoginRepeatedJti

SpecFaults == Init /\ [][NextFaults]_vars

\* two workers whose calls interleave
NextRace ==
    \/ RegisterCheck
    \/ RegisterInsert
    \/ LoginKnown
    \/ RevokeAllQuery
    \/ RevokeAllCommit

SpecRace == Init /\ [][NextRace]_vars

\* ================================================================= claims
\* the e-mail as the service normalizes it: email.lower().strip()
Normalized(email) == strip(lower(email))

\* C1: after a successful change_user_password(u, ...) every session of u
\* that existed before the call is inactive, and an is_session_valid that
\* follows returns false for each of u's token ids.
C1_PasswordChangeRevokesSessions ==
    [][ /\ (resp'.op = "change_user_password" /\ resp'.result.success) =>
              \A i \in DOMAIN sessions :
                  sessions[i].user_id = resp'.args.user_id
                      => ~sessions'[i].is_active
        /\ ( /\ resp.op = "change_user_password"
             /\ resp.result.success
             /\ resp'.op = "is_session_valid"
             /\ \E i \in DOMAIN sessions :
                   /\ sessions[i].session_token = resp'.args.session_token
                   /\ sessions[i].user_id = resp.args.user_id )
              => resp'.result = FALSE
      ]_vars

\* C1 witness: a password change has succeeded for a user who holds two
\* sessions that have not reached their expiry.
C1_Witness ==
    /\ resp.op = "change_user_password"
    /\ resp.result.success
    /\ Cardinality({i \in DOMAIN sessions :
           /\ sessions[i].user_id = resp.args.user_id
           /\ now < sessions[i].expires_at
           /\ ~sessions[i].is_active}) = 2

\* C2: a request that a jwt_required route serves presents a token whose
\* session has not been terminated: the session with the token's jti exists
\* and is active (the part of the claim about logout, revoke-all, password
\* change and deactivation).
C2_TerminatedSessionNotAccepted ==
    resp.op = "get_sessions" =>
        \E i \in DOMAIN sessions :
            /\ sessions[i].session_token = resp.args.token.jti
            /\ sessions[i].is_active

\* the three ways a login finds no account to let in
LoginNoUser(a) ==
    \A i \in DOMAIN users : users[i].email # Normalized(a.email)
LoginOnlyInactive(a) ==
    /\ \E i \in DOMAIN users : users[i].email = Normalized(a.email)
    /\ \A i \in DOMAIN users :
          users[i].email = Normalized(a.email) => ~users[i].is_active
LoginWrongPassword(a) ==
    \E i \in DOMAIN users :
        /\ users[i].email = Normalized(a.email)
        /\ users[i].is_active
        /\ ~check_password(users[i], a.password)

\* C3 as stated: in each of the three cases authenticate_user returns the
\* failure 'Invalid credentials' and nothing else.
C3_AlwaysInvalidCredentials ==
    ( /\ resp.op = "authenticate_user"
      /\ \/ LoginNoUser(resp.args)
         \/ LoginOnlyInactive(resp.args)
         \/ LoginWrongPassword(resp.args) )
      => resp.result = Fail("Invalid credentials")

\* C3 amended: in each of the three cases the result is the same failure,
\* decided by the input alone: 'Email and password are required' when the
\* e-mail or the password is empty, 'Invalid credentials' otherwise.
C3_GenericLoginFailure ==
    ( /\ resp.op = "authenticate_user"
      /\ \/ LoginNoUser(resp.args)
         \/ LoginOnlyInactive(resp.args)
         \/ LoginWrongPassword(resp.args) )
      => resp.result =
            IF Len(resp.args.email) = 0 \/ Len(resp.args.password) = 0
            THEN Fail("Email and password are required")
            ELSE Fail("Invalid credentials")

\* C3 witness: a login with the right password of a deactivated account has
\* been refused with the generic failure.
C3_Witness ==
    /\ resp.op = "authenticate_user"
    /\ LoginOnlyInactive(resp.args)
    /\ \E i \in DOMAIN users :
          /\ users[i].email = Normalized(resp.args.email)
          /\ check_password(users[i], resp.args.password)
    /\ resp.result = Fail("Invalid credentials")

\* C4: a register_user with a valid name and password whose e-mail, once
\* lower-cased and trimmed, is already registered fails with 'Email already
\* registered'.
C4_NormalizedDuplicateRejected ==
    ( /\ resp.op = "register_user"
      /\ Len(strip(resp.args.name)) > 0
      /\ validate_password(resp.args.password)[1]
      /\ ~resp.result.success
      /\ \E i \in DOMAIN users : users[i].email = Normalized(resp.args.email) )
      => resp.result = Fail("Email already registered")

\* C5: every access token handed to a caller has exactly one session record
\* with its token id.
C5_EveryTokenHasOneSession ==
    \A t \in tokens :
        Cardinality({i \in DOMAIN sessions :
                        sessions[i].session_token = t.jti}) = 1

\* C6: is_session_valid returns true exactly when a session with the token
\* id exists, is active and now < expires_at.
C6_ValidIffActiveAndBeforeExpiry ==
    [][ resp'.op = "is_session_valid" =>
          resp'.result =
             (\E i \in DOMAIN sessions :
                 /\ sessions[i].session_token = resp'.args.session_token
                 /\ sessions[i].is_active
                 /\ now < sessions[i].expires_at)
      ]_vars

\* C7: a logout reports success and leaves the session of its token
\* inactive; when that session was inactive already it changes nothing.
C7_LogoutIdempotent ==
    [][ resp'.op = "logout" =>
          LET S == {i \in DOMAIN sessions :
                      sessions[i].session_token = resp'.args.token.jti}
          IN  /\ resp'.result.success
              /\ DOMAIN sessions' = DOMAIN sessions
              /\ \A i \in S : ~sessions'[i].is_active
              /\ (\A i \in S : ~sessions[i].is_active) =>
                    /\ sessions' = sessions
                    /\ users' = users
                    /\ tokens' = tokens
      ]_vars

\* C7 witness: a logout has been served for a token whose session exists,
\* and the session is inactive.
C7_Witness ==
    /\ resp.op = "logout"
    /\ resp.result.success
    /\ \E i \in DOMAIN sessions :
          /\ sessions[i].session_token = resp.args.token.jti
          /\ ~sessions[i].is_active

\* C8: revoke_all_user_sessions(u) returns the number of u's sessions that
\* had is_active set, and leaves u no session that is active and unexpired;
\* the route reports the same count.
C8_RevokeAllCountsAndClears ==
    [][ /\ resp'.op = "revoke_all_user_sessions" =>
              /\ resp'.result =
                    Cardinality({i \in DOMAIN sessions :
                        /\ sessions[i].user_id = resp'.args.user_id
                        /\ sessions[i].is_active})
              /\ \A i \in DOMAIN sessions' :
                    sessions'[i].user_id = resp'.args.user_id =>
                        ~(sessions'[i].is_active /\ now' < sessions'[i].expires_at)
        /\ resp'.op = "revoke_all_sessions" =>
              /\ resp'.result.revoked_count =
                    Cardinality({i \in DOMAIN sessions :
                        /\ sessions[i].user_id = resp'.args.token.sub
                        /\ sessions[i].is_active})
              /\ \A i \in DOMAIN sessions' :
                    sessions'[i].user_id = resp'.args.token.sub =>
                        ~(sessions'[i].is_active /\ now' < sessions'[i].expires_at)
      ]_vars

\* C8 witness: revoke_all_user_sessions has returned 2, and the two sessions
\* of the user are inactive.
C8_Witness ==
    /\ resp.op = "revoke_all_user_sessions"
    /\ resp.result = 2
    /\ \A i \in DOMAIN sessions :
          sessions[i].user_id = resp.args.user_id /\ ~sessions[i].is_active

\* C9: a successful authenticate_user leaves exactly one session with the
\* jti of the returned access token; it is new, belongs to the user, is
\* active and expires one hour after its creation.
C9_LoginCreatesOneHourSession ==
    [][ (resp'.op = "authenticate_user" /\ resp'.result.success) =>
          LET S == {i \in DOMAIN sessions' :
                      sessions'[i].session_token = resp'.result.access_token.jti}
          IN  /\ Cardinality(S) = 1
              /\ \A i \in S :
                    /\ i \notin DOMAIN sessions
                    /\ sessions'[i].user_id = resp'.result.user.id
                    /\ sessions'[i].is_active
                    /\ sessions'[i].expires_at = sessions'[i].created_at + AccessTTL
      ]_vars

\* C10: register_user checks the name, then the e-mail format, then the
\* password policy; when one fails the result is the failure with the
\* message of the first rule violated, and no table and no token changes.
C10_RegisterValidationOrder ==
    [][ resp'.op = "register_user" =>
          LET a == resp'.args
              nameBad == Len(a.name) = 0 \/ Len(strip(a.name)) = 0
              emailBad == Len(a.email) = 0 \/ ~validate_email(a.email)
              passwordBad == ~validate_password(a.password)[1]
              expected == IF nameBad THEN "Name is required"
                          ELSE IF emailBad THEN "Valid email is required"
                          ELSE Join(validate_password(a.password)[2])
          IN  (nameBad \/ emailBad \/ passwordBad) =>
                 /\ resp'.result = Fail(expected)
                 /\ users' = users
                 /\ sessions' = sessions
                 /\ tokens' = tokens
      ]_vars

\* C10 witness: a registration with a good name, a malformed e-mail and a
\* weak password has been refused for its e-mail.
C10_Witness ==
    /\ resp.op = "register_user"
    /\ Len(strip(resp.args.name)) > 0
    /\ ~validate_email(resp.args.email)
    /\ ~validate_password(resp.args.password)[1]
    /\ resp.result = Fail("Valid email is required")

\* C11: a successful deactivate_user_account(u) leaves u inactive and every
\* session of u inactive; while u is inactive it stays so, holds no active
\* session, a login with its e-mail and its password fails with 'Invalid
\* credentials', a refresh for u fails with 'User not found or inactive',
\* and neither creates a session.
C11_DeactivatedAccountLockedOut ==
    [][ /\ (resp'.op = "deactivate_user_account" /\ resp'.result.success) =>
              /\ ~users'[resp'.args.user_id].is_active
              /\ \A i \in DOMAIN sessions' :
                    sessions'[i].user_id = resp'.args.user_id
                        => ~sessions'[i].is_active
        /\ \A u \in DOMAIN users \cap DOMAIN users' :
              ~users[u].is_active => ~users'[u].is_active
        /\ \A u \in DOMAIN users' : \A i \in DOMAIN sessions' :
              (~users'[u].is_active /\ sessions'[i].user_id = u)
                  => ~sessions'[i].is_active
        /\ ( /\ resp'.op = "authenticate_user"
             /\ \E u \in DOMAIN users :
                   /\ ~users[u].is_active
                   /\ users[u].email = Normalized(resp'.args.email)
                   /\ check_password(users[u], resp'.args.password) )
              => /\ resp'.result = Fail("Invalid credentials")
                 /\ sessions' = sessions
        /\ ( /\ resp'.op = "refresh_access_token"
             /\ resp'.args.user_id \in DOMAIN users
             /\ ~users[resp'.args.user_id].is_active )
              => /\ resp'.result = Fail("User not found or inactive")
                 /\ sessions' = sessions
                 /\ tokens' = tokens
      ]_vars

\* C11 witness: a login with the e-mail and the password of a deactivated
\* account that held a session has been refused.
C11_Witness ==
    /\ resp.op = "authenticate_user"
    /\ resp.result = Fail("Invalid credentials")
    /\ \E u \in DOMAIN users :
          /\ ~users[u].is_active
          /\ users[u].email = Normalized(resp.args.email)
          /\ check_password(users[u], resp.args.password)
          /\ \E i \in DOMAIN sessions :
                sessions[i].user_id = u /\ ~sessions[i].is_active

\* C12: a successful delete_user_account(u) leaves no user with id u, no
\* user with the e-mail of u and no session with user_id = u (no session is
\* left without its user); a refresh for u and a login with an e-mail that
\* no user record holds fail and make no token and no session.
C12_DeletedAccountIsGone ==
    [][ /\ (resp'.op = "delete_user_account" /\ resp'.result.success) =>
              /\ resp'.args.user_id \in DOMAIN users
              /\ resp'.args.user_id \notin DOMAIN users'
              /\ \A v \in DOMAIN users' :
                    users'[v].email # users[resp'.args.user_id].email
              /\ \A i \in DOMAIN sessions' :
                    sessions'[i].user_id # resp'.args.user_id
        /\ \A i \in DOMAIN sessions' : sessions'[i].user_id \in DOMAIN users'
        /\ ( /\ resp.op = "delete_user_account"
             /\ resp.result.success
             /\ resp'.op = "refresh_access_token"
             /\ resp'.args.user_id = resp.args.user_id )
              => /\ ~resp'.result.success
                 /\ tokens' = tokens
                 /\ sessions' = sessions
        /\ ( /\ resp'.op = "authenticate_user"
             /\ \A v \in DOMAIN users :
                   users[v].email # Normalized(resp'.args.email) )
              => /\ ~resp'.result.success
                 /\ tokens' = tokens
                 /\ sessions' = sessions
      ]_vars

\* C12 witness: an account that had been issued an access token (and with it
\* a session) has been deleted, and no session of it is left.
C12_Witness ==
    /\ resp.op = "delete_user_account"
    /\ resp.result.success
    /\ \E t \in tokens : t.sub = resp.args.user_id
    /\ \A i \in DOMAIN sessions : sessions[i].user_id # resp.args.user_id

\* C13: refresh_access_token(u) for an existing active user returns success
\* and a new access token and nothing else, and changes no user and no
\* session; for a missing or inactive user it returns a failure and issues
\* no token.
C13_RefreshIssuesAccessTokenOnly ==
    [][ resp'.op = "refresh_access_token" =>
          LET u == resp'.args.user_id
          IN  /\ users' = users
              /\ sessions' = sessions
              /\ IF u \in DOMAIN users /\ users[u].is_active
                 THEN /\ resp'.result.success
                      /\ DOMAIN resp'.result = {"success", "access_token"}
                      /\ resp'.result.access_token.type = "access"
                      /\ resp'.result.access_token.sub = u
                      /\ resp'.result.access_token \notin tokens
                      /\ tokens' = tokens \cup {resp'.result.access_token}
                 ELSE /\ ~resp'.result.success
                      /\ tokens' = tokens
                      /\ jtis' = jtis
      ]_vars

\* C13 witness: a refresh has succeeded for a user who holds a session, and
\* the new access token has no session.
C13_Witness ==
    /\ resp.op = "refresh_access_token"
    /\ resp.result.success
    /\ \E i \in DOMAIN sessions : sessions[i].user_id = resp.args.user_id
    /\ \A i \in DOMAIN sessions :
          sessions[i].session_token # resp.result.access_token.jti

\* C14: generate_password_reset_token returns the same success result, with
\* the same message, whether or not a user holds the e-mail, and changes no
\* user, no session and no token.
C14_ResetRequestIsGeneric ==
    [][ resp'.op = "generate_password_reset_token" =>
          /\ resp'.result =
                [success |-> TRUE,
                 message |-> "If the email exists, a reset link has been sent"]
          /\ users' = users
          /\ sessions' = sessions
          /\ tokens' = tokens
      ]_vars

\* C14 witness: a reset has been requested for an e-mail that no user holds,
\* while another e-mail is held by a registered user, and it was answered
\* with success.
C14_Witness ==
    /\ resp.op = "generate_password_reset_token"
    /\ resp.result.success
    /\ UsersByEmail(Normalized(resp.args.email)) = {}
    /\ UsersByEmail(Str_ab) # {}

\* C15: a reset token is single-use and must have been issued: a
\* reset_password_with_token made before any other call (no token has been
\* issued yet) fails, and one that directly follows a successful
\* reset_password_with_token with the same token fails.
C15_ResetTokenSingleUse ==
    [][ resp'.op = "reset_password_with_token" =>
          /\ resp.op = "init" => ~resp'.result.success
          /\ ( /\ resp.op = "reset_password_with_token"
               /\ resp.result.success
               /\ resp.args.token = resp'.args.token )
                => ~resp'.result.success
      ]_vars

\* the five rules of the password policy, in their order, each with its
\* reason
PolicyRules(p) ==
    << <<Len(p) >= 8, "Password must be at least 8 characters long">>,
       <<\E i \in 1..Len(p) : p[i] \in Upper,
         "Password must contain at least one uppercase letter">>,
       <<\E i \in 1..Len(p) : p[i] \in Lower,
         "Password must contain at least one lowercase letter">>,
       <<\E i \in 1..Len(p) : p[i] \in Digit,
         "Password must contain at least one number">>,
       <<\E i \in 1..Len(p) : p[i] \in Special,
         "Password must contain at least one special character">> >>

\* C16: validate_password(p) returns true with no reason exactly when p
\* meets the five rules; otherwise false with one reason for each rule that
\* is not met, in the order length, uppercase, lowercase, digit, special,
\* and no reason for a rule that is met.
C16_ValidatePasswordReasons ==
    resp.op = "validate_password" =>
        LET rules == PolicyRules(resp.args.password)
            unmet == {k \in 1..5 : ~rules[k][1]}
            ok == resp.result[1]
            errors == resp.result[2]
        IN  /\ ok = (unmet = {})
            /\ ok = (errors = <<>>)
            /\ Len(errors) = Cardinality(unmet)
            /\ \A k \in unmet : \E j \in 1..Len(errors) : errors[j] = rules[k][2]
            /\ \A i, j \in 1..Len(errors) :
                  i < j => \E a, b \in unmet :
                              /\ a < b
                              /\ errors[i] = rules[a][2]
                              /\ errors[j] = rules[b][2]

\* C16 witness: a password of eight characters or more that lacks two of the
\* character classes has been refused with two reasons.
C16_Witness ==
    /\ resp.op = "validate_password"
    /\ Len(resp.args.password) >= 8
    /\ resp.result[1] = FALSE
    /\ Len(resp.result[2]) = 2

\* the sessions of user u in table s that have is_active set
ActiveOf(s, u) == {i \in DOMAIN s : s[i].user_id = u /\ s[i].is_active}

\* C17: a successful register_user and a successful authenticate_user each
\* add exactly one session, active and owned by the user, and change no
\* other session; a failed authenticate_user changes no session.  (Ann
\* registers: one session; a login with a wrong password: still one; a
\* login with the right password: two active sessions.)
C17_OneSessionPerSuccess ==
    [][ /\ (resp'.op = "register_user" /\ resp'.result.success) =>
              /\ Cardinality(ActiveOf(sessions', resp'.result.user.id)) = 1
              /\ Cardinality(DOMAIN sessions') = Cardinality(DOMAIN sessions) + 1
              /\ \A i \in DOMAIN sessions :
                    i \in DOMAIN sessions' /\ sessions'[i] = sessions[i]
        /\ (resp'.op = "authenticate_user" /\ resp'.result.success) =>
              /\ Cardinality(ActiveOf(sessions', resp'.result.user.id)) =
                    Cardinality(ActiveOf(sessions, resp'.result.user.id)) + 1
              /\ Cardinality(DOMAIN sessions') = Cardinality(DOMAIN sessions) + 1
              /\ \A i \in DOMAIN sessions :
                    i \in DOMAIN sessions' /\ sessions'[i] = sessions[i]
        /\ (resp'.op = "authenticate_user" /\ ~resp'.result.success) =>
              sessions' = sessions
      ]_vars

\* C17 witness: Ann has logged in with her password after registering, and
\* two active sessions exist for her.
C17_Witness ==
    /\ resp.op = "authenticate_user"
    /\ resp.result.success
    /\ resp.result.user.name = Str_Ann
    /\ Cardinality(ActiveOf(sessions, resp.result.user.id)) = 2

\* the row after a merge of dictionary d over the keys of whitelist
Merged(row, d, whitelist) ==
    [f \in DOMAIN row |->
        IF f \in whitelist /\ f \in DOMAIN d THEN d[f] ELSE row[f]]

\* C19: update_notification_preferences and update_privacy_settings for an
\* existing user succeed and merge by key: a whitelisted key of the input
\* takes the given value, a whitelisted key that is absent keeps its value,
\* and every other key of the input changes nothing; no other user and no
\* session changes.
C19_PreferencesMergeByKey ==
    [][ /\ ( /\ resp'.op = "update_notification_preferences"
             /\ resp'.args.user_id \in DOMAIN users )
              => /\ resp'.result.success
                 /\ users' = [users EXCEPT ![resp'.args.user_id] =
                        Merged(@, resp'.args.preferences,
                               {"recipe_notifications", "meal_plan_notifications",
                                "shopping_notifications", "tips_notifications"})]
                 /\ sessions' = sessions
        /\ ( /\ resp'.op = "update_privacy_settings"
             /\ resp'.args.user_id \in DOMAIN users )
              => /\ resp'.result.success
                 /\ users' = [users EXCEPT ![resp'.args.user_id] =
                        Merged(@, resp'.args.settings,
                               {"allow_sharing", "analytics_enabled"})]
                 /\ sessions' = sessions
      ]_vars

\* C19 witness: a notification update that named one whitelisted key has
\* succeeded for a user whose other notification keys differ from their
\* defaults, and they are still as they were.
C19_Witness ==
    /\ resp.op = "update_notification_preferences"
    /\ resp.result.success
    /\ DOMAIN resp.args.preferences = {"recipe_notifications"}
    /\ users[resp.args.user_id].recipe_notifications = FALSE
    /\ users[resp.args.user_id].shopping_notifications = TRUE
    /\ users[resp.args.user_id].tips_notifications = FALSE

\* C18: revocation is terminal: a session whose is_active is false is still
\* there with is_active false after every step of register, authenticate,
\* refresh, logout, revoke-all, is_session_valid, change password,
\* deactivate and the profile and preference updates.
C18_RevocationIsTerminal ==
    [][ \A i \in DOMAIN sessions :
          ~sessions[i].is_active =>
              /\ i \in DOMAIN sessions'
              /\ sessions'[i].session_token = sessions[i].session_token
              /\ ~sessions'[i].is_active
      ]_vars

\* C18 witness: a session that was revoked is inactive while its user has
\* logged in again and holds an active session.
C18_Witness ==
    /\ resp.op = "authenticate_user"
    /\ resp.result.success
    /\ \E i, j \in DOMAIN sessions :
          /\ sessions[i].user_id = sessions[j].user_id
          /\ ~sessions[i].is_active
          /\ sessions[j].is_active

\* C20: register_user is all-or-nothing: whenever it returns a failure, an
\* exception after the password hashing included, the users and the
\* sessions are as they were before the call.
C20_FailedRegisterLeavesNothing ==
    [][ (resp'.op = "register_user" /\ ~resp'.result.success) =>
          /\ users' = users
          /\ sessions' = sessions
      ]_vars

\* C21: with register_user calls that interleave between the existence
\* check and the insert, no two users hold the same e-mail and every stored
\* e-mail is lower-cased and trimmed; a registration succeeds only when no
\* user held its e-mail, and one that fails leaves no user and no session.
C21_EmailUniqueUnderRace ==
    [][ /\ \A u, v \in DOMAIN users' :
              u # v => users'[u].email # users'[v].email
        /\ \A u \in DOMAIN users' :
              users'[u].email = strip(lower(users'[u].email))
        /\ (resp'.op = "register_user" /\ resp'.result.success) =>
              /\ \A u \in DOMAIN users :
                    users[u].email # Normalized(resp'.args.email)
              /\ Cardinality(DOMAIN users') = Cardinality(DOMAIN users) + 1
        /\ (resp'.op = "register_user" /\ ~resp'.result.success) =>
              /\ users' = users
              /\ sessions' = sessions
      ]_vars

\* C21 witness: a registration that had passed the existence check has
\* failed at its insert, because the other worker's registration of the
\* same e-mail was committed in between.
C21_Witness ==
    /\ resp.op = "register_user"
    /\ resp.result = Fail("Registration failed")
    /\ \E u \in DOMAIN users : users[u].email = Normalized(resp.args.email)

\* C22: with logins that interleave with revoke_all_user_sessions(u), every
\* session of u committed before the call started is inactive when it
\* returns: the query takes every session of u that is active when the call
\* starts, the commit leaves each of them inactive, and a session that is
\* inactive stays so; only a session committed in between may be active.
C22_RevokeAllCoversEarlierSessions ==
    [][ /\ resp'.op = "revoke_all_user_sessions_query" =>
              inflight'[resp'.args.worker].sessions =
                  {i \in DOMAIN sessions :
                      /\ sessions[i].user_id = resp'.args.user_id
                      /\ sessions[i].is_active}
        /\ resp'.op = "revoke_all_user_sessions" =>
              /\ \A i \in inflight[resp'.args.worker].sessions :
                    i \in DOMAIN sessions' /\ ~sessions'[i].is_active
              /\ resp'.result = Cardinality(inflight[resp'.args.worker].sessions)
        /\ \A i \in DOMAIN sessions :
              ~sessions[i].is_active =>
                  i \in DOMAIN sessions' /\ ~sessions'[i].is_active
      ]_vars

\* C22 witness: a revoke-all has returned after a login of the same user
\* came in between its query and its commit: the session it found is
\* inactive and the session of that login is active.
C22_Witness ==
    /\ resp.op = "revoke_all_user_sessions"
    /\ resp.result = 1
    /\ \E i, j \in DOMAIN sessions :
          /\ sessions[i].user_id = resp.args.user_id
          /\ sessions[j].user_id = resp.args.user_id
          /\ ~sessions[i].is_active
          /\ sessions[j].is_active

C24_AccessTokenClaims ==
    [][ ( /\ resp'.op \in {"register_user", "authenticate_user",
                            "refresh_access_token"}
          /\ resp'.result.success )
          => /\ resp'.result.access_token.sub \in DOMAIN users'
             /\ DOMAIN resp'.result.access_token.claims =
                    {"user_type", "email", "preferred_language"}
             /\ "refresh_token" \in DOMAIN resp'.result =>
                    /\ resp'.result.refresh_token.sub =
                          resp'.result.access_token.sub
                    /\ "claims" \notin DOMAIN resp'.result.refresh_token
      ]_vars

\* C25: is_session_valid sets last_activity of the session with the token
\* when and only when it returns true, and changes nothing else; when it
\* returns false it leaves every session record as it was.
C25_ValidityCheckFrame ==
    [][ resp'.op = "is_session_valid" =>
          /\ DOMAIN sessions' = DOMAIN sessions
          /\ IF resp'.result
             THEN \A i \in DOMAIN sessions :
                    IF sessions[i].session_token = resp'.args.session_token
                    THEN sessions'[i] = [sessions[i] EXCEPT !.last_activity = now]
                    ELSE sessions'[i] = sessions[i]
             ELSE sessions' = sessions
      ]_vars

\* C26: revoke_user_session returns true exactly when a session with the
\* token id existed and this call turned its is_active from true to false;
\* it returns false when there is none, and for a session that is revoked
\* already it turns nothing.
C26_RevokeReportsTheFlip ==
    [][ resp'.op = "revoke_user_session" =>
          resp'.result =
             (\E i \in DOMAIN sessions :
                 /\ sessions[i].session_token = resp'.args.session_token
                 /\ sessions[i].is_active
                 /\ ~sessions'[i].is_active)
      ]_vars

\* C27: a session keeps the expires_at, ip_address, user_agent, user_id and
\* session_token it was created with: no step of is_session_valid, refresh,
\* logout, revoke-all, change password or deactivate changes them, and none
\* moves expires_at forward.
C27_SessionProvenanceIsFixed ==
    [][ \A i \in DOMAIN sessions :
          /\ i \in DOMAIN sessions'
          /\ sessions'[i].expires_at = sessions[i].expires_at
          /\ sessions'[i].ip_address = sessions[i].ip_address
          /\ sessions'[i].user_agent = sessions[i].user_agent
          /\ sessions'[i].user_id = sessions[i].user_id
          /\ sessions'[i].session_token = sessions[i].session_token
      ]_vars

\* C27 witness: is_session_valid has just returned true for a session that
\* was created earlier, so its last_activity moved and its expiry did not.
C27_Witness ==
    /\ resp.op = "is_session_valid"
    /\ resp.result = TRUE
    /\ \E i \in DOMAIN sessions :
          /\ sessions[i].session_token = resp.args.session_token
          /\ sessions[i].last_activity = now
          /\ sessions[i].created_at < now
          /\ sessions[i].expires_at = fromtimestamp(sessions[i].created_at + AccessTTL)

\* C28: revoke_user_session(t), and so a logout, changes is_active on the
\* session with token id t only and leaves every other session, of the
\* same user and of the others, as it was; revoke_all_user_sessions(u)
\* leaves every session of every other user as it was.
C28_RevocationStaysInScope ==
    [][ /\ resp'.op = "revoke_user_session" =>
              \A i \in DOMAIN sessions :
                 IF sessions[i].session_token = resp'.args.session_token
                 THEN sessions'[i] = [sessions[i] EXCEPT !.is_active = FALSE]
                 ELSE sessions'[i] = sessions[i]
        /\ resp'.op = "logout" =>
              \A i \in DOMAIN sessions :
                 IF sessions[i].session_token = resp'.args.token.jti
                 THEN sessions'[i] = [sessions[i] EXCEPT !.is_active = FALSE]
                 ELSE sessions'[i] = sessions[i]
        /\ resp'.op = "revoke_all_user_sessions" =>
              \A i \in DOMAIN sessions :
                 sessions[i].user_id # resp'.args.user_id
                    => sessions'[i] = sessions[i]
      ]_vars

\* C28 witness: one session has just been revoked by its token id while
\* another session of the same user is still active.
C28_Witness ==
    /\ resp.op = "revoke_user_session"
    /\ resp.result = TRUE
    /\ \E i, j \in DOMAIN sessions :
          /\ sessions[i].session_token = resp.args.session_token
          /\ ~sessions[i].is_active
          /\ j # i /\ sessions[j].user_id = sessions[i].user_id
          /\ sessions[j].is_active

\* C29: a change_user_password that fails changes nothing: no password hash
\* and no session, so none is revoked.  The current password is verified
\* before the new one is held against the policy: a wrong current password
\* gives the incorrect-current-password failure whatever the new password
\* is, and a right one with a weak new password gives the policy failure.
C29_FailedPasswordChangeChangesNothing ==
    [][ resp'.op = "change_user_password" =>
          LET a == resp'.args
          IN  /\ ~resp'.result.success =>
                    /\ users' = users
                    /\ sessions' = sessions
              /\ a.user_id \in DOMAIN users =>
                    IF ~check_password(users[a.user_id], a.current_password)
                    THEN resp'.result = Fail("Current password is incorrect")
                    ELSE IF \E k \in 1..5 : ~PolicyRules(a.new_password)[k][1]
                    THEN /\ ~resp'.result.success
                         /\ resp'.result # Fail("Current password is incorrect")
                    ELSE resp'.result.success
      ]_vars

\* C29 witness: a change with a wrong current password and a weak new one
\* has failed for a user who holds an active session.
C29_Witness ==
    /\ resp.op = "change_user_password"
    /\ resp.result = Fail("Current password is incorrect")
    /\ ~validate_password(resp.args.new_password)[1]
    /\ \E i \in DOMAIN sessions :
          /\ sessions[i].user_id = resp.args.user_id
          /\ sessions[i].is_active

\* C30: update_user_profile writes the whitelisted fields of its user and
\* nothing else: whatever keys the input has, every user keeps its email,
\* password_hash, is_active and is_verified, no other user and no session
\* changes, so a profile update cannot reactivate an account, change its
\* login e-mail or mark it verified.
C30_ProfileUpdateWhitelist ==
    [][ resp'.op = "update_user_profile" =>
          /\ sessions' = sessions
          /\ DOMAIN users' = DOMAIN users
          /\ \A u \in DOMAIN users :
                /\ users'[u].email = users[u].email
                /\ users'[u].password_hash = users[u].password_hash
                /\ users'[u].is_active = users[u].is_active
                /\ users'[u].is_verified = users[u].is_verified
                /\ users'[u] = IF u = resp'.args.user_id
                               THEN Merged(users[u], resp'.args.kwargs,
                                      {"name", "phone", "bio",
                                       "preferred_language", "default_servings",
                                       "skill_level", "dietary_restrictions",
                                       "favorite_cuisines"})
                               ELSE users[u]
      ]_vars

\* C30 witness: a profile update that names is_active has succeeded for a
\* deactivated account: the name is the new one and the account is still
\* inactive.
C30_Witness ==
    /\ resp.op = "update_user_profile"
    /\ resp.result.success
    /\ "is_active" \in DOMAIN resp.args.kwargs
    /\ resp.args.kwargs.is_active
    /\ users[resp.args.user_id].name = resp.args.kwargs.name
    /\ ~users[resp.args.user_id].is_active

====
